---- MODULE Spec2Model ----
(***************************************************************************)
(* The resilient remote-invocation layer of Auto-Blogging-DPLUS:           *)
(* VertexRateLimiter (src/vertex_utils.py), CacheManager                   *)
(* (src/cache_manager.py) and call_vertex_with_retry (src/vertex_utils.py).*)
(*                                                                         *)
(* Time.  time.time() is a clock of whole seconds.  The code uses a        *)
(* timestamp only in a difference with the current time, so every          *)
(* timestamp is kept relative to the present: Now is 0, a past instant is  *)
(* negative, and a tick of the clock moves every stored timestamp one      *)
(* second back.  A timestamp older than Horizon seconds is kept at         *)
(* -Horizon: the bucket is full and every timeout has passed by then.      *)
(* A statement takes no whole second: the clock ticks only while every     *)
(* thread is outside a call or asleep in time.sleep, and a sleeper runs    *)
(* again at the first whole second its sleep has ended by.                 *)
(* The calendar day (datetime.now().date()) is a counter of its own that   *)
(* may advance at any moment.                                              *)
(***************************************************************************)
EXTENDS Integers, Sequences, FiniteSets, TLC

\* ------------------------------------------------------------------ bounds
NumThreads == 2
MaxDay == 2
MaxCalls == 4
BurstCalls == 3
MaxInvocations == 2
PlanCalls == 1
MaxAcquires == 2
GenLen == 4

\* ------------------------------------------------------- program constants
DefaultRpm == 5
DefaultRpd == 1500
AcquireTimeoutInCall == 30
MaxRetries == 3
SecondsPerMinute == 60
MaxWait == 10
BreakerPercent == 95

Free == 0
Now == 0
Horizon == SecondsPerMinute
NoFile == [date |-> -1, count |-> 0]

\* Constructor arguments and timeouts the limiter is run with.
RpmChoices == {2, 3}
RpdChoices == {20}
AcquireTimeouts == {5}

VARIABLES
    \* VertexRateLimiter fields
    requests_per_minute, requests_per_day,
    min_bucket, min_bucket_last_refill, min_bucket_lock,
    daily_usage, daily_usage_date,
    usage_log_file,
    \* environment
    today,
    \* one acquire call per thread
    pc, timeout, start_time, wake, result,
    \* history of the calls
    ncalls, called, entry_usage, slept, last_wait, overlapping, window,
    restart_info,
    \* CacheManager: the cache file and the module's cache object
    cache_file, cache, last_set, loaded,
    \* the environment variable GOOGLE_CLOUD_LOCATION
    cloud_location,
    \* one call of call_vertex_with_retry
    call_pc, initial_model_name, prompt, models_to_try, regions_to_try,
    region_idx, model_idx, attempt, backoff_wake, call_result,
    \* history of the calls of call_vertex_with_retry
    invocations, call_entry, call_acquires, last_call,
    \* one call of ContentGenerator._call_gemini
    gen_pc, gen_response, gen_result, gen_recovery,
    \* what the threads of the lock-level and lock-free sections hold: the
    \* text a thread has serialised for the cache file, the lock of the daily
    \* usage, the module global _rate_limiter and the limiter a thread got
    set_buf, daily_usage_lock, rate_limiter, got,
    \* the backend calls of one call of call_vertex_with_retry, counted
    backend_calls

limiterVars == <<requests_per_minute, requests_per_day, min_bucket,
                 min_bucket_last_refill, min_bucket_lock, daily_usage,
                 daily_usage_date, usage_log_file>>
threadVars == <<pc, timeout, start_time, wake, result>>
histVars == <<ncalls, called, entry_usage, slept, last_wait, overlapping,
              window, restart_info>>
cacheVars == <<cache_file, cache, last_set, loaded>>
callVars == <<cloud_location, call_pc, initial_model_name, prompt,
              models_to_try, regions_to_try, region_idx, model_idx, attempt,
              backoff_wake, call_result>>
callHist == <<invocations, call_entry, call_acquires, last_call>>
genVars == <<gen_pc, gen_response, gen_result, gen_recovery>>
raceVars == <<set_buf, daily_usage_lock, rate_limiter, got>>
planHist == <<backend_calls>>
elsewhere == <<genVars, raceVars, planHist>>
vars == <<limiterVars, today, threadVars, histVars, cacheVars, callVars,
          callHist, genVars, raceVars, planHist>>

Threads == DOMAIN pc

Min(a, b) == IF a <= b THEN a ELSE b
Max(a, b) == IF a >= b THEN a ELSE b

\* A past timestamp one second later.
Older(ts) == Max(ts - 1, -Horizon)

\* ------------------------------------------------- usage log (lines 72-93)
\* _save_usage_log: the file holds the date and the count.
save_usage_log_stale(date, count) ==
    [date |-> date, count |-> Max(count - 1, 0)]
save_usage_log(date, count) == [date |-> date, count |-> count]

\* _load_usage_log: the count of the file when the file is of the day the
\* limiter was constructed on, else the 0 the constructor set.
load_usage_log(file, date) ==
    IF file # NoFile /\ file.date = date THEN file.count ELSE 0

\* ------------------------------------------ _refill_minute_bucket (95-104)
refill_amount(elapsed, rpm) == (elapsed * rpm) \div SecondsPerMinute

bucket_after_refill_uncapped(bucket, last, t, rpm) ==
    bucket + refill_amount(t - last, rpm)
bucket_after_refill(bucket, last, t, rpm) ==
    IF refill_amount(t - last, rpm) > 0
    THEN Min(rpm, bucket + refill_amount(t - last, rpm))
    ELSE bucket

last_refill_after_refill(last, t, rpm) ==
    IF refill_amount(t - last, rpm) > 0 THEN t ELSE last

\* --------------------------------------------- daily usage (lines 106-134)
\* The reset every daily method starts with.
usage_on(day) == IF day # daily_usage_date THEN 0 ELSE daily_usage

\* _check_daily_limit, after its reset.
daily_limit_open_lax(usage, rpd) == usage <= rpd
daily_limit_open(usage, rpd) == usage < rpd

get_daily_usage == usage_on(today)

\* Where a usage lies: under 95% of the daily ceiling, in the last 5% under
\* it, or at it.
UsageBand(usage, rpd) ==
    IF usage >= rpd THEN "full"
    ELSE IF 100 * usage >= BreakerPercent * rpd THEN "buffer"
    ELSE "low"

\* ---------------------------------------------------------------- history
\* An observer of one 60-second window: it opens at a grant of the
\* observer's choice and counts the grants until it is 60 seconds old.
\* quick: every grant counted came less than one refill interval after the
\* first.
\* Unobserved: no observer runs.
NoWindow == [open |-> FALSE, start |-> 0, count |-> 0, quick |-> TRUE]
Unobserved == [open |-> FALSE, start |-> 0, count |-> -1, quick |-> TRUE]

WindowAtGrant(w, rpm) ==
    IF w = Unobserved THEN {w}
    ELSE {[open |-> TRUE, start |-> Now, count |-> 1, quick |-> TRUE]} \cup
         IF w.open
         THEN {[w EXCEPT !.count = @ + 1,
                    !.quick = @ /\ (Now - w.start) * rpm < SecondsPerMinute]}
         ELSE {}

WindowAtTick(w) ==
    IF w = Unobserved THEN w
    ELSE IF w.open /\ Now - (w.start - 1) < SecondsPerMinute
    THEN [w EXCEPT !.start = @ - 1]
    ELSE NoWindow

\* ---------------------------------------------------------------- strings
\* A string is the sequence of its pieces; ":", "/" and " " are pieces of
\* their own and a model name is cut at its dashes.
RECURSIVE Strip(_)
Strip(str) ==
    IF str = <<>> THEN str
    ELSE IF Head(str) = " " THEN Strip(Tail(str))
    ELSE IF str[Len(str)] = " " THEN Strip(SubSeq(str, 1, Len(str) - 1))
    ELSE str

Contains(str, piece) == \E i \in 1..Len(str) : str[i] = piece

\* name.split("/")[-1] (lines 194-195)
RECURSIVE LastSegment(_)
LastSegment(str) ==
    IF Contains(str, "/") THEN LastSegment(Tail(str)) ELSE str

\* list(dict.fromkeys(seq)) (line 230)
RECURSIVE Dedup(_)
Dedup(seq) ==
    IF seq = <<>> THEN seq
    ELSE LET init == SubSeq(seq, 1, Len(seq) - 1)
             last == seq[Len(seq)]
         IN IF \E i \in 1..Len(init) : init[i] = last
            THEN Dedup(init)
            ELSE Append(Dedup(init), last)

\* ------------------------------------------- CacheManager (cache_manager.py)
\* The cache file: absent, not JSON, a JSON value that is no object (a list),
\* or an object from key to entry.  The timestamp of an entry is never read
\* and is left out.
FileAbsent == [kind |-> "absent", map |-> <<>>]
FileUnparsable == [kind |-> "unparsable", map |-> <<>>]
JsonList == [kind |-> "list", map |-> <<>>]
JsonObject(m) == [kind |-> "object", map |-> m]
Absent == [response |-> "<None>"]

\* _load_cache (lines 15-21)
load_cache_kept(file) ==
    IF file.kind = "absent" THEN JsonObject(<<>>) ELSE file
load_cache(file) ==
    IF file.kind \in {"absent", "unparsable"} THEN JsonObject(<<>>) ELSE file

\* _generate_key (lines 30-33): the text that is hashed; md5 is taken to be
\* one-to-one on it.
generate_key(p, model_name) == model_name \o <<":">> \o p

\* get (lines 35-37) on a cache that is an object
cache_get_miss(c, p, model_name) == Absent
cache_get(c, p, model_name) ==
    IF generate_key(p, model_name) \in DOMAIN c.map
    THEN c.map[generate_key(p, model_name)]
    ELSE Absent

\* set (lines 39-45) on a cache that is an object
cache_set(c, p, model_name, response_text) ==
    JsonObject([k \in DOMAIN c.map \cup {generate_key(p, model_name)} |->
                   IF k = generate_key(p, model_name)
                   THEN [response |-> response_text]
                   ELSE c.map[k]])

\* _save_cache (lines 23-28), the write succeeding: json.dump writes the
\* object of all the entries of the cache.
save_cache_one(c) ==
    JsonObject([k \in {CHOOSE k \in DOMAIN c.map : TRUE} |-> c.map[k]])
save_cache(c) == JsonObject(c.map)

\* ----------------------------------- the fallback plan (lines 213-236)
Flash20Exp == <<"gemini", "2.0", "flash", "exp">>
Flash20Thinking == <<"gemini", "2.0", "flash", "thinking", "exp">>
Flash15v2 == <<"gemini", "1.5", "flash", "002">>
Flash15v1 == <<"gemini", "1.5", "flash", "001">>
Pro15v2 == <<"gemini", "1.5", "pro", "002">>
Pro15v1 == <<"gemini", "1.5", "pro", "001">>

FlashCatalog == <<Flash20Exp, Flash20Thinking, Flash15v2, Flash15v1,
                  Pro15v2, Pro15v1>>
ProCatalog == <<Pro15v2, Pro15v1, Flash20Exp>>

models_for(name) ==
    Dedup(<<name>> \o
          (IF Contains(name, "flash") \/ Contains(name, "2.0")
           THEN FlashCatalog
           ELSE IF Contains(name, "pro") THEN ProCatalog ELSE <<>>))

FixedRegions == <<"us-central1", "us-east1", "europe-west1",
                  "asia-southeast1">>

regions_for_kept(current_region) == <<current_region>> \o FixedRegions
regions_for(current_region) ==
    <<current_region>> \o
    SelectSeq(FixedRegions, LAMBDA r : r # current_region)

\* ------------------------------ the except clauses (lines 285-297)
\* google.api_core.exceptions: every error class of the library derives
\* from GoogleAPIError.
IsGoogleAPIError(e) ==
    e \in {"ServiceUnavailable", "InternalServerError", "ResourceExhausted",
           "NotFound"}

\* The first except clause that matches the error decides.
handler(e) ==
    IF e \in {"ServiceUnavailable", "InternalServerError"}
           \/ IsGoogleAPIError(e)
    THEN "retry"
    ELSE IF e = "ResourceExhausted" THEN "next"
    ELSE IF e = "NotFound" THEN "next"
    ELSE "unexpected"

\* Line 286: the sleep after the failure of the attempt numbered n
\* (n runs from 0).
backoff_delay_fixed(n) == 1
backoff_delay(n) == 2 ^ n

\* Line 278: for attempt in range(max_retries), after the attempt
\* numbered n.
retries_left_always(n) == TRUE
retries_left(n) == n + 1 < MaxRetries

\* Line 268: what acquire returned lets the candidate be called.
token_granted_any(res) == TRUE
token_granted(res) == res = "True"

\* Line 281: the response counts when its text is not empty.
response_ok_any(text) == TRUE
response_ok(text) == text # ""

\* Line 209: the circuit breaker.
breaker_tripped_at_ceiling(usage, rpd) == usage >= rpd
breaker_tripped(usage, rpd) == 100 * usage >= BreakerPercent * rpd

\* ------------------------------------------------------------------- Init
NoRestart == [happened |-> FALSE, same_day |-> FALSE, usage_before |-> 0,
              grants_before |-> 0, reported |-> 0]
NoCall == [here |-> FALSE, first |-> "none", outcome |-> "none",
           calls |-> 0, sleeps |-> 0]

\* __init__ (lines 44-70): a full bucket, usage 0 unless the log is today's.
LimiterConstructed ==
    /\ min_bucket = requests_per_minute
    /\ min_bucket_last_refill = Now
    /\ min_bucket_lock = Free
    /\ daily_usage_date = today
    /\ daily_usage = load_usage_log(usage_log_file, today)

\* No thread has called acquire.
ThreadsIdle ==
    /\ timeout = [t \in Threads |-> 0]
    /\ start_time = [t \in Threads |-> 0]
    /\ wake = [t \in Threads |-> 0]
    /\ result = [t \in Threads |-> "none"]
    /\ called = [t \in Threads |-> FALSE]
    /\ entry_usage = [t \in Threads |-> "low"]
    /\ slept = [t \in Threads |-> FALSE]
    /\ last_wait = [t \in Threads |-> 0]
    /\ overlapping = TRUE
    /\ ncalls = 0
    /\ restart_info = NoRestart

\* The cache is not used.
CacheUnused ==
    /\ cache_file = FileAbsent
    /\ cache = load_cache(cache_file)
    /\ last_set = <<>>
    /\ loaded = cache_file

\* call_vertex_with_retry is not called.
CallIdle ==
    /\ call_pc = "idle"
    /\ initial_model_name = <<>>
    /\ prompt = <<>>
    /\ models_to_try = <<>>
    /\ regions_to_try = <<>>
    /\ region_idx = 0
    /\ model_idx = 0
    /\ attempt = 0
    /\ backoff_wake = 0
    /\ call_result = "none"
    /\ invocations = 0
    /\ call_entry = "none"
    /\ call_acquires = 0
    /\ last_call = NoCall

\* _call_gemini is not called.
NoResponse == [given |-> FALSE, text |-> <<>>]
NoResult == [kind |-> "none", value |-> <<>>]
GenIdle ==
    /\ gen_pc = "idle"
    /\ gen_response = NoResponse
    /\ gen_result = NoResult
    /\ gen_recovery = FALSE

\* No thread is writing the cache file, holds the lock of the daily usage or
\* is in get_rate_limiter.
NoBuffer == [kind |-> "none", map |-> <<>>]
NoLimiter == 0
RaceIdle ==
    /\ set_buf = [t \in Threads |-> NoBuffer]
    /\ daily_usage_lock = Free
    /\ rate_limiter = NoLimiter
    /\ got = [t \in Threads |-> NoLimiter]
    /\ backend_calls = 0

InitLimiter ==
    /\ requests_per_minute \in RpmChoices
    /\ requests_per_day \in RpdChoices
    /\ today = 1
    /\ usage_log_file \in {NoFile, [date |-> 0, count |-> requests_per_day - 1],
                           [date |-> 1, count |-> requests_per_day - 2]}
    /\ pc = [t \in 1..NumThreads |-> "idle"]
    /\ LimiterConstructed
    /\ ThreadsIdle
    /\ window = Unobserved
    /\ CacheUnused
    /\ cloud_location = "us-central1"
    /\ CallIdle
    /\ GenIdle
    /\ RaceIdle

\* ---------------------------------------------------- acquire (136-167)
\* Lines 146-149: _check_daily_limit (with its reset on a new day), then
\* start_time.
AcquireBegin(t, tmo) ==
    /\ pc[t] = "idle"
    /\ called' = [called EXCEPT ![t] = TRUE]
    /\ timeout' = [timeout EXCEPT ![t] = tmo]
    /\ entry_usage' = [entry_usage EXCEPT ![t] =
           UsageBand(get_daily_usage, requests_per_day)]
    /\ slept' = [slept EXCEPT ![t] = FALSE]
    /\ last_wait' = [last_wait EXCEPT ![t] = 0]
    /\ overlapping' = (overlapping /\ \A u \in Threads : result[u] = "none")
    /\ daily_usage' = usage_on(today)
    /\ daily_usage_date' = today
    /\ IF daily_limit_open(usage_on(today), requests_per_day)
       THEN /\ pc' = [pc EXCEPT ![t] = "loop"]
            /\ result' = [result EXCEPT ![t] = "none"]
            /\ start_time' = [start_time EXCEPT ![t] = Now]
       ELSE /\ pc' = [pc EXCEPT ![t] = "idle"]
            /\ result' = [result EXCEPT ![t] = "False"]
            /\ UNCHANGED start_time
    /\ UNCHANGED <<requests_per_minute, requests_per_day, min_bucket,
                   min_bucket_last_refill, min_bucket_lock, usage_log_file,
                   today, wake, window, restart_info>>

\* Line 152: with self.min_bucket_lock.
AcquireLock(t) ==
    /\ pc[t] = "loop"
    /\ min_bucket_lock = Free
    /\ min_bucket_lock' = t
    /\ pc' = [pc EXCEPT ![t] = "locked"]
    /\ UNCHANGED <<requests_per_minute, requests_per_day, min_bucket,
                   min_bucket_last_refill, daily_usage, daily_usage_date,
                   usage_log_file, today, timeout, start_time, wake,
                   result, histVars>>

\* Lines 153-158: refill, then take a token and _record_usage (119-127),
\* or leave the lock with no token.
AcquireBucket(t) ==
    /\ pc[t] = "locked"
    /\ min_bucket_lock = t
    /\ min_bucket_lock' = Free
    /\ min_bucket_last_refill' =
           last_refill_after_refill(min_bucket_last_refill, Now,
                                    requests_per_minute)
    /\ LET b == bucket_after_refill(min_bucket, min_bucket_last_refill, Now,
                                    requests_per_minute)
       IN IF b >= 1
          THEN /\ min_bucket' = b - 1
               /\ daily_usage' = usage_on(today) + 1
               /\ daily_usage_date' = today
               /\ usage_log_file' = save_usage_log(today, usage_on(today) + 1)
               /\ pc' = [pc EXCEPT ![t] = "idle"]
               /\ result' = [result EXCEPT ![t] = "True"]
               /\ start_time' = [start_time EXCEPT ![t] = 0]
               /\ last_wait' = [last_wait EXCEPT ![t] = 0]
               /\ window' \in WindowAtGrant(window, requests_per_minute)
          ELSE /\ min_bucket' = b
               /\ pc' = [pc EXCEPT ![t] = "waiting"]
               /\ UNCHANGED <<daily_usage, daily_usage_date, usage_log_file,
                              result, start_time, last_wait, window>>
    /\ UNCHANGED <<requests_per_minute, requests_per_day, today, timeout,
                   wake, ncalls, called, entry_usage, slept, overlapping,
                   restart_info>>

\* Line 166, in half seconds: min(10, 1 + elapsed * 0.5).
wait_time2_uncapped(elapsed) == 2 + elapsed
wait_time2(elapsed) == Min(2 * MaxWait, 2 + elapsed)

\* Lines 160-167: the timeout, else the sleep.
AcquireTimeout(t) ==
    /\ pc[t] = "waiting"
    /\ IF Now - start_time[t] >= timeout[t]
       THEN /\ pc' = [pc EXCEPT ![t] = "idle"]
            /\ result' = [result EXCEPT ![t] = "False"]
            /\ start_time' = [start_time EXCEPT ![t] = 0]
            /\ last_wait' = [last_wait EXCEPT ![t] = 0]
            /\ UNCHANGED <<wake, slept>>
       ELSE /\ pc' = [pc EXCEPT ![t] = "sleep"]
            /\ wake' = [wake EXCEPT ![t] =
                   Now + (wait_time2(Now - start_time[t]) + 1) \div 2]
            /\ slept' = [slept EXCEPT ![t] = TRUE]
            /\ last_wait' = [last_wait EXCEPT ![t] =
                   wait_time2(Now - start_time[t])]
            /\ UNCHANGED <<result, start_time>>
    /\ UNCHANGED <<limiterVars, today, timeout, ncalls, called, entry_usage,
                   overlapping, window, restart_info>>

\* time.sleep returns (line 167) and the loop runs again.
AcquireWake(t) ==
    /\ pc[t] = "sleep"
    /\ Now >= wake[t]
    /\ pc' = [pc EXCEPT ![t] = "loop"]
    /\ UNCHANGED <<limiterVars, today, timeout, start_time, wake, result,
                   histVars>>

\* ------------------------------------------------------------ environment
\* time.time() moves on by a second.
Tick ==
    /\ \A t \in Threads : \/ pc[t] = "idle"
                          \/ pc[t] = "sleep" /\ Now < wake[t]
    /\ min_bucket_last_refill' = Older(min_bucket_last_refill)
    /\ start_time' = [t \in Threads |->
           IF pc[t] = "idle" THEN start_time[t] ELSE Older(start_time[t])]
    /\ wake' = [t \in Threads |->
           IF pc[t] = "sleep" THEN wake[t] - 1 ELSE wake[t]]
    /\ window' = WindowAtTick(window)
    /\ UNCHANGED <<requests_per_minute, requests_per_day, min_bucket,
                   min_bucket_lock, daily_usage, daily_usage_date,
                   usage_log_file, today, pc, timeout, result, ncalls,
                   called, entry_usage, slept, last_wait, overlapping,
                   restart_info>>

\* datetime.now().date() moves on by a day.
NewDay ==
    /\ today < MaxDay
    /\ ~restart_info.happened
    /\ today' = today + 1
    /\ UNCHANGED <<limiterVars, threadVars, histVars>>

\* The process ends between two calls and a new one constructs its limiter
\* (lines 44-70) from the usage log, on day d.  The threads of the old
\* process are gone; what the new process does next is what a process does
\* from an initial state with this usage log.
Restart(d) ==
    /\ \A t \in Threads : pc[t] = "idle"
    /\ ~restart_info.happened
    /\ d \in {today, today + 1}
    /\ d <= MaxDay
    /\ today' = d
    /\ min_bucket' = requests_per_minute
    /\ min_bucket_last_refill' = Now
    /\ min_bucket_lock' = Free
    /\ daily_usage_date' = d
    /\ daily_usage' = load_usage_log(usage_log_file, d)
    /\ restart_info' =
           [happened |-> TRUE, same_day |-> (d = today),
            usage_before |-> get_daily_usage,
            grants_before |->
                Cardinality({t \in Threads : result[t] = "True"}),
            reported |-> load_usage_log(usage_log_file, d)]
    /\ pc' = [t \in Threads |-> "ended"]
    /\ UNCHANGED <<requests_per_minute, requests_per_day, usage_log_file,
                   timeout, start_time, wake, result, ncalls, called,
                   entry_usage, slept, last_wait, overlapping, window>>

others == <<cacheVars, callVars, callHist, genVars, raceVars, planHist>>

NextLimiter ==
    \/ \E t \in Threads, tmo \in AcquireTimeouts :
           /\ ncalls < MaxCalls
           /\ ncalls' = ncalls + 1
           /\ AcquireBegin(t, tmo)
           /\ UNCHANGED others
    \/ \E t \in Threads : AcquireLock(t) /\ UNCHANGED others
    \/ \E t \in Threads : AcquireBucket(t) /\ UNCHANGED others
    \/ \E t \in Threads : AcquireTimeout(t) /\ UNCHANGED others
    \/ \E t \in Threads : AcquireWake(t) /\ UNCHANGED others
    \/ Tick /\ UNCHANGED others
    \/ NewDay /\ UNCHANGED others
    \/ \E d \in 1..MaxDay : Restart(d) /\ UNCHANGED others

SpecLimiter == InitLimiter /\ [][NextLimiter]_vars

\* --------------------------------- the limiter and the callers that wait
\* Two threads call acquire with the timeout of the limiter's tests or with
\* the one of call_vertex_with_retry; every thread that can run does run in
\* the end, and time passes.
WaitTimeouts == AcquireTimeouts \cup {AcquireTimeoutInCall}

InitWait ==
    /\ requests_per_minute = 2
    /\ requests_per_day \in RpdChoices
    /\ today = 1
    /\ usage_log_file = NoFile
    /\ pc = [t \in 1..NumThreads |-> "idle"]
    /\ LimiterConstructed
    /\ ThreadsIdle
    /\ window = Unobserved
    /\ CacheUnused
    /\ cloud_location = "us-central1"
    /\ CallIdle
    /\ GenIdle
    /\ RaceIdle

NextWait ==
    \/ \E t \in Threads, tmo \in WaitTimeouts :
           /\ ncalls < MaxCalls
           /\ ncalls' = ncalls + 1
           /\ AcquireBegin(t, tmo)
           /\ UNCHANGED others
    \/ \E t \in Threads : AcquireLock(t) /\ UNCHANGED others
    \/ \E t \in Threads : AcquireBucket(t) /\ UNCHANGED others
    \/ \E t \in Threads : AcquireTimeout(t) /\ UNCHANGED others
    \/ \E t \in Threads : AcquireWake(t) /\ UNCHANGED others
    \/ Tick /\ UNCHANGED others

FairWait ==
    /\ \A t \in 1..NumThreads :
           /\ WF_vars(AcquireLock(t) /\ UNCHANGED others)
           /\ WF_vars(AcquireBucket(t) /\ UNCHANGED others)
           /\ WF_vars(AcquireTimeout(t) /\ UNCHANGED others)
           /\ WF_vars(AcquireWake(t) /\ UNCHANGED others)
    /\ WF_vars(Tick /\ UNCHANGED others)

SpecWait == InitWait /\ [][NextWait]_vars /\ FairWait

\* ------------------------------------------ the two locks of the limiter
\* acquire and get_daily_usage a lock at a time: a step takes a lock that is
\* free, or runs to the end of the with block and leaves the lock.
\* _save_usage_log succeeds or fails (lines 92-93).
LockTimeouts == AcquireTimeouts

\* The end of the with block of _record_usage (lines 121-127), whether the
\* usage file was saved or not.
lock_after_record_leaky(t, saved) == IF saved THEN Free ELSE t
lock_after_record(t, saved) == Free

\* acquire is called (line 136), or get_daily_usage (line 129).
LkBegin(t, op, tmo) ==
    /\ pc[t] = "idle"
    /\ ncalls < MaxCalls
    /\ ncalls' = ncalls + 1
    /\ pc' = [pc EXCEPT ![t] = op]
    /\ timeout' = [timeout EXCEPT ![t] = tmo]
    /\ result' = [result EXCEPT ![t] = "none"]
    /\ called' = [called EXCEPT ![t] = TRUE]
    /\ slept' = [slept EXCEPT ![t] = FALSE]
    /\ last_wait' = [last_wait EXCEPT ![t] = 0]
    /\ UNCHANGED <<limiterVars, today, start_time, wake, entry_usage,
                   overlapping, window, restart_info, daily_usage_lock>>

\* Lines 108, 131: with self.daily_usage_lock, with no other lock held.
LkDailyEnter(t) ==
    /\ pc[t] \in {"check_enter", "usage_enter"}
    /\ daily_usage_lock = Free
    /\ daily_usage_lock' = t
    /\ pc' = [pc EXCEPT ![t] = IF pc[t] = "check_enter" THEN "check"
                                ELSE "usage"]
    /\ UNCHANGED <<limiterVars, today, timeout, start_time, wake, result,
                   histVars>>

\* Lines 109-117 and 146-149: _check_daily_limit to the end of its with
\* block.
LkCheck(t) ==
    /\ pc[t] = "check"
    /\ daily_usage_lock = t
    /\ daily_usage_lock' = Free
    /\ daily_usage' = usage_on(today)
    /\ daily_usage_date' = today
    /\ IF daily_limit_open(usage_on(today), requests_per_day)
       THEN /\ pc' = [pc EXCEPT ![t] = "loop"]
            /\ start_time' = [start_time EXCEPT ![t] = Now]
            /\ UNCHANGED result
       ELSE /\ pc' = [pc EXCEPT ![t] = "idle"]
            /\ result' = [result EXCEPT ![t] = "False"]
            /\ UNCHANGED start_time
    /\ UNCHANGED <<requests_per_minute, requests_per_day, min_bucket,
                   min_bucket_last_refill, min_bucket_lock, usage_log_file,
                   today, timeout, wake, histVars>>

\* Lines 132-134: get_daily_usage to the end of its with block.
LkUsage(t) ==
    /\ pc[t] = "usage"
    /\ daily_usage_lock = t
    /\ daily_usage_lock' = Free
    /\ pc' = [pc EXCEPT ![t] = "idle"]
    /\ UNCHANGED <<limiterVars, today, timeout, start_time, wake, result,
                   histVars>>

\* Lines 153-156 under the bucket lock: the refill; a token is taken and
\* the lock kept for _record_usage, or the with block ends with no token.
LkBucket(t) ==
    /\ pc[t] = "locked"
    /\ min_bucket_lock = t
    /\ min_bucket_last_refill' =
           last_refill_after_refill(min_bucket_last_refill, Now,
                                    requests_per_minute)
    /\ LET b == bucket_after_refill(min_bucket, min_bucket_last_refill, Now,
                                    requests_per_minute)
       IN IF b >= 1
          THEN /\ min_bucket' = b - 1
               /\ pc' = [pc EXCEPT ![t] = "record_enter"]
               /\ UNCHANGED min_bucket_lock
          ELSE /\ min_bucket' = b
               /\ pc' = [pc EXCEPT ![t] = "waiting"]
               /\ min_bucket_lock' = Free
    /\ UNCHANGED <<requests_per_minute, requests_per_day, daily_usage,
                   daily_usage_date, usage_log_file, today, timeout,
                   start_time, wake, result, histVars, daily_usage_lock>>

\* Line 121: with self.daily_usage_lock, inside the bucket lock.
LkRecordEnter(t) ==
    /\ pc[t] = "record_enter"
    /\ daily_usage_lock = Free
    /\ daily_usage_lock' = t
    /\ pc' = [pc EXCEPT ![t] = "record"]
    /\ UNCHANGED <<limiterVars, today, timeout, start_time, wake, result,
                   histVars>>

\* Lines 122-127: the usage is counted and saved, or the save fails and
\* line 92 catches it; the with block ends.
LkRecord(t, saved) ==
    /\ pc[t] = "record"
    /\ daily_usage_lock = t
    /\ daily_usage' = usage_on(today) + 1
    /\ daily_usage_date' = today
    /\ usage_log_file' = IF saved
                         THEN save_usage_log(today, usage_on(today) + 1)
                         ELSE usage_log_file
    /\ daily_usage_lock' = lock_after_record(t, saved)
    /\ pc' = [pc EXCEPT ![t] = "leave"]
    /\ UNCHANGED <<requests_per_minute, requests_per_day, min_bucket,
                   min_bucket_last_refill, min_bucket_lock, today, timeout,
                   start_time, wake, result, histVars>>

\* Line 158: return True leaves the with block of the bucket lock.
LkLeave(t) ==
    /\ pc[t] = "leave"
    /\ min_bucket_lock = t
    /\ min_bucket_lock' = Free
    /\ pc' = [pc EXCEPT ![t] = "idle"]
    /\ result' = [result EXCEPT ![t] = "True"]
    /\ start_time' = [start_time EXCEPT ![t] = 0]
    /\ UNCHANGED <<requests_per_minute, requests_per_day, min_bucket,
                   min_bucket_last_refill, daily_usage, daily_usage_date,
                   usage_log_file, today, timeout, wake, histVars,
                   daily_usage_lock>>

InitLocks ==
    /\ requests_per_minute = 2
    /\ requests_per_day \in RpdChoices
    /\ today = 1
    /\ usage_log_file \in {NoFile,
                           [date |-> 1, count |-> requests_per_day - 1]}
    /\ pc = [t \in 1..NumThreads |-> "idle"]
    /\ LimiterConstructed
    /\ ThreadsIdle
    /\ window = Unobserved
    /\ CacheUnused
    /\ cloud_location = "us-central1"
    /\ CallIdle
    /\ GenIdle
    /\ RaceIdle

LockFrame ==
    UNCHANGED <<cacheVars, callVars, callHist, genVars, set_buf,
                rate_limiter, got, planHist>>

NextLocks ==
    \/ \E t \in Threads, tmo \in LockTimeouts :
           LkBegin(t, "check_enter", tmo) /\ LockFrame
    \/ \E t \in Threads : LkBegin(t, "usage_enter", 0) /\ LockFrame
    \/ \E t \in Threads : LkDailyEnter(t) /\ LockFrame
    \/ \E t \in Threads : LkCheck(t) /\ LockFrame
    \/ \E t \in Threads : LkUsage(t) /\ LockFrame
    \/ \E t \in Threads : AcquireLock(t) /\ UNCHANGED others
    \/ \E t \in Threads : LkBucket(t) /\ LockFrame
    \/ \E t \in Threads : LkRecordEnter(t) /\ LockFrame
    \/ \E t \in Threads, saved \in BOOLEAN : LkRecord(t, saved) /\ LockFrame
    \/ \E t \in Threads : LkLeave(t) /\ LockFrame
    \/ \E t \in Threads : AcquireTimeout(t) /\ UNCHANGED others
    \/ \E t \in Threads : AcquireWake(t) /\ UNCHANGED others
    \/ Tick /\ UNCHANGED others

FairLocks ==
    /\ \A t \in 1..NumThreads :
           /\ WF_vars(LkDailyEnter(t) /\ LockFrame)
           /\ WF_vars(LkCheck(t) /\ LockFrame)
           /\ WF_vars(LkUsage(t) /\ LockFrame)
           /\ WF_vars(AcquireLock(t) /\ UNCHANGED others)
           /\ WF_vars(LkBucket(t) /\ LockFrame)
           /\ WF_vars(LkRecordEnter(t) /\ LockFrame)
           /\ WF_vars(\E saved \in BOOLEAN : LkRecord(t, saved) /\ LockFrame)
           /\ WF_vars(LkLeave(t) /\ LockFrame)
           /\ WF_vars(AcquireTimeout(t) /\ UNCHANGED others)
           /\ WF_vars(AcquireWake(t) /\ UNCHANGED others)
    /\ WF_vars(Tick /\ UNCHANGED others)

SpecLocks == InitLocks /\ [][NextLocks]_vars /\ FairLocks

\* -------------------------------------------- get_rate_limiter (170-183)
\* The threads of the process call get_rate_limiter; no lock is taken.  A
\* limiter is known by the thread that constructed it.
\* Line 177: the test of the global.
GetTest(t) ==
    /\ pc[t] = "idle"
    /\ ncalls < MaxCalls
    /\ ncalls' = ncalls + 1
    /\ pc' = [pc EXCEPT ![t] = IF rate_limiter = NoLimiter THEN "construct"
                                ELSE "return"]
    /\ UNCHANGED <<rate_limiter, got>>

\* Lines 179-182: VertexRateLimiter(...) is constructed.
GetConstruct(t) ==
    /\ pc[t] = "construct"
    /\ pc' = [pc EXCEPT ![t] = "assign"]
    /\ UNCHANGED <<ncalls, rate_limiter, got>>

\* Line 179: the new limiter is assigned to the global.
GetAssign(t) ==
    /\ pc[t] = "assign"
    /\ rate_limiter' = t
    /\ pc' = [pc EXCEPT ![t] = "return"]
    /\ UNCHANGED <<ncalls, got>>

\* Line 183: return _rate_limiter.
GetReturn(t) ==
    /\ pc[t] = "return"
    /\ got' = [got EXCEPT ![t] = rate_limiter]
    /\ pc' = [pc EXCEPT ![t] = "idle"]
    /\ UNCHANGED <<ncalls, rate_limiter>>

InitSingleton ==
    /\ requests_per_minute = DefaultRpm
    /\ requests_per_day = DefaultRpd
    /\ today = 1
    /\ usage_log_file = NoFile
    /\ pc = [t \in 1..(NumThreads + 1) |-> "idle"]
    /\ LimiterConstructed
    /\ ThreadsIdle
    /\ window = Unobserved
    /\ CacheUnused
    /\ cloud_location = "us-central1"
    /\ CallIdle
    /\ GenIdle
    /\ RaceIdle

SingletonFrame ==
    UNCHANGED <<limiterVars, today, timeout, start_time, wake, result,
                called, entry_usage, slept, last_wait, overlapping, window,
                restart_info, cacheVars, callVars, callHist, genVars, set_buf,
                daily_usage_lock, planHist>>

NextSingleton ==
    \/ \E t \in Threads : GetTest(t) /\ SingletonFrame
    \/ \E t \in Threads : GetConstruct(t) /\ SingletonFrame
    \/ \E t \in Threads : GetAssign(t) /\ SingletonFrame
    \/ \E t \in Threads : GetReturn(t) /\ SingletonFrame

SpecSingleton == InitSingleton /\ [][NextSingleton]_vars

\* -------------------------------------------- the limiter under a burst
\* A limiter with no usage log, three threads, and the observer of a
\* 60-second window running.
BurstThreads == {1, 2, 3}

InitBurst ==
    /\ requests_per_minute \in RpmChoices
    /\ requests_per_day \in RpdChoices
    /\ today = 1
    /\ usage_log_file = NoFile
    /\ pc = [t \in BurstThreads |-> "idle"]
    /\ LimiterConstructed
    /\ ThreadsIdle
    /\ window = NoWindow
    /\ CacheUnused
    /\ cloud_location = "us-central1"
    /\ CallIdle
    /\ GenIdle
    /\ RaceIdle

NextBurst ==
    \/ \E t \in Threads, tmo \in AcquireTimeouts :
           /\ ncalls < BurstCalls
           /\ ncalls' = ncalls + 1
           /\ AcquireBegin(t, tmo)
           /\ UNCHANGED others
    \/ \E t \in Threads : AcquireLock(t) /\ UNCHANGED others
    \/ \E t \in Threads : AcquireBucket(t) /\ UNCHANGED others
    \/ \E t \in Threads : AcquireTimeout(t) /\ UNCHANGED others
    \/ \E t \in Threads : AcquireWake(t) /\ UNCHANGED others
    \/ Tick /\ UNCHANGED others

SpecBurst == InitBurst /\ [][NextBurst]_vars

\* ------------------------------------------------------ the cache alone
CachePrompts == {<<"c">>, <<"b", ":", "c">>}
CacheModels == {<<"a">>, <<"a", ":", "b">>}
CacheTexts == {"r1", "r2"}
CachePairs == CachePrompts \X CacheModels

\* set (lines 39-45) with _save_cache (lines 23-28)
CacheSet(p, model_name, response_text) ==
    /\ cache.kind = "object"
    /\ cache' = cache_set(cache, p, model_name, response_text)
    /\ cache_file' = save_cache(cache_set(cache, p, model_name,
                                          response_text))
    /\ last_set' = [last_set EXCEPT ![<<p, model_name>>] = response_text]
    /\ UNCHANGED loaded

InitCache ==
    /\ requests_per_minute = DefaultRpm
    /\ requests_per_day = DefaultRpd
    /\ today = 1
    /\ usage_log_file = NoFile
    /\ pc = [t \in {1} |-> "idle"]
    /\ LimiterConstructed
    /\ ThreadsIdle
    /\ window = Unobserved
    /\ cache_file \in {FileAbsent, FileUnparsable,
                       JsonObject([k \in {generate_key(<<"c">>, <<"a">>)} |->
                                      [response |-> "r0"]])}
    /\ cache = load_cache(cache_file)
    /\ loaded = cache_file
    /\ last_set = [pair \in CachePairs |-> "<None>"]
    /\ cloud_location = "us-central1"
    /\ CallIdle
    /\ GenIdle
    /\ RaceIdle

NextCache ==
    \E p \in CachePrompts, m \in CacheModels, r \in CacheTexts :
        /\ CacheSet(p, m, r)
        /\ UNCHANGED <<limiterVars, today, threadVars, histVars, callVars,
                       callHist, genVars, raceVars, planHist>>

SpecCache == InitCache /\ [][NextCache]_vars

\* --------------------------------- CacheManager.set from several threads
\* The module's cache object is shared by the threads that call
\* call_vertex_with_retry (vertex_utils.py line 35); set and _save_cache take
\* no lock.  Each thread sets a pair of its own.
Writers == {1, 2}
WriterPair(t) ==
    IF t = 1 THEN <<(<<"c">>), (<<"a", ":", "b">>)>>
    ELSE <<(<<"b">>), (<<"a">>)>>

\* The length of a file or of a serialised text goes with the number of its
\* entries.
Size(file) == Cardinality(DOMAIN file.map)

\* A text written from the start of the file over what the file holds: the
\* file is the text when the text is no shorter than the file was, else the
\* text with the rest of the old file after it, which is no JSON.
Overlay(buf, file) ==
    IF buf.kind = "object" /\ Size(file) <= Size(buf) THEN buf
    ELSE [kind |-> "unparsable",
          map |-> IF Size(file) <= Size(buf) THEN buf.map ELSE file.map]

\* Lines 40-44: the entry goes into self.cache.
SetInsert(t, response_text) ==
    /\ pc[t] = "idle"
    /\ cache.kind = "object"
    /\ cache' = cache_set(cache, WriterPair(t)[1], WriterPair(t)[2],
                          response_text)
    /\ last_set' = [last_set EXCEPT ![WriterPair(t)] = response_text]
    /\ pc' = [pc EXCEPT ![t] = "set_save"]
    /\ UNCHANGED <<cache_file, loaded, set_buf>>

\* Line 25: open(self.cache_file, "w") empties the file.
SetOpen(t) ==
    /\ pc[t] = "set_save"
    /\ cache_file' = FileUnparsable
    /\ pc' = [pc EXCEPT ![t] = "set_dump"]
    /\ UNCHANGED <<cache, last_set, loaded, set_buf>>

\* Line 26: json.dump starts to iterate over self.cache.
SetDumpBegin(t) ==
    /\ pc[t] = "set_dump"
    /\ set_buf' = [set_buf EXCEPT ![t] = save_cache(cache)]
    /\ pc' = [pc EXCEPT ![t] = "set_iter"]
    /\ UNCHANGED <<cache_file, cache, last_set, loaded>>

\* Line 26: the iteration ends.  When self.cache has grown meanwhile, the
\* iteration had passed its last entry, or it raises RuntimeError (line 27)
\* with part of the text written.
SetDumpEnd(t, raised) ==
    /\ pc[t] = "set_iter"
    /\ raised => DOMAIN cache.map # DOMAIN set_buf[t].map
    /\ set_buf' = [set_buf EXCEPT ![t] =
           IF raised THEN [kind |-> "unparsable", map |-> <<>>] ELSE @]
    /\ pc' = [pc EXCEPT ![t] = "set_close"]
    /\ UNCHANGED <<cache_file, cache, last_set, loaded>>

\* Line 25, the end of the with block: the file object is closed and the
\* text it buffered is written from the start of the file.
SetClose(t) ==
    /\ pc[t] = "set_close"
    /\ cache_file' = Overlay(set_buf[t], cache_file)
    /\ set_buf' = [set_buf EXCEPT ![t] = NoBuffer]
    /\ pc' = [pc EXCEPT ![t] = "set_done"]
    /\ UNCHANGED <<cache, last_set, loaded>>

InitCacheRace ==
    /\ requests_per_minute = DefaultRpm
    /\ requests_per_day = DefaultRpd
    /\ today = 1
    /\ usage_log_file = NoFile
    /\ pc = [t \in Writers |-> "idle"]
    /\ LimiterConstructed
    /\ ThreadsIdle
    /\ window = Unobserved
    /\ cache_file \in {FileAbsent,
                       JsonObject([k \in {generate_key(<<"c">>, <<"a">>)} |->
                                      [response |-> "r0"]])}
    /\ cache = load_cache(cache_file)
    /\ loaded = cache_file
    /\ last_set = [t \in {WriterPair(w) : w \in Writers} |-> "<None>"]
    /\ cloud_location = "us-central1"
    /\ CallIdle
    /\ GenIdle
    /\ RaceIdle

CacheRaceFrame ==
    UNCHANGED <<limiterVars, today, timeout, start_time, wake, result,
                histVars, callVars, callHist, genVars, daily_usage_lock,
                rate_limiter, got, planHist>>

NextCacheRace ==
    \/ \E t \in Writers, r \in CacheTexts : SetInsert(t, r) /\ CacheRaceFrame
    \/ \E t \in Writers : SetOpen(t) /\ CacheRaceFrame
    \/ \E t \in Writers : SetDumpBegin(t) /\ CacheRaceFrame
    \/ \E t \in Writers, raised \in BOOLEAN :
           SetDumpEnd(t, raised) /\ CacheRaceFrame
    \/ \E t \in Writers : SetClose(t) /\ CacheRaceFrame

SpecCacheRace == InitCacheRace /\ [][NextCacheRace]_vars

\* ------------------------------------- call_vertex_with_retry (186-300)
Caller == 1
SeedNames == {Flash20Exp,
              <<"publishers", "/", "google", "/", "models", "/">> \o Pro15v1,
              <<"text", "bison">>}
Prompts == {<<" ">>, <<"p">>}
Outcomes == {"text", "empty", "text_raises", "ServiceUnavailable",
             "ResourceExhausted", "NotFound", "Other"}
ResponseText == "r"

\* GOOGLE_CLOUD_LOCATION (line 233): unset, an alternate of the fixed list,
\* a region the fixed list does not have.
CloudLocations == {"us-central1", "europe-west1", "asia-east1"}

\* The next candidate of the two loops (lines 238, 249).
LastModel == model_idx >= Len(models_to_try)
Advance ==
    /\ model_idx' = IF LastModel THEN 0 ELSE model_idx + 1
    /\ region_idx' = IF LastModel THEN region_idx + 1 ELSE region_idx
    /\ call_pc' = IF LastModel THEN "region" ELSE "model"
    /\ attempt' = 0

\* The next candidate, where no backend call was made to this one.
NextCandidate ==
    /\ Advance
    /\ last_call' = [last_call EXCEPT !.here = FALSE]

Return(value) ==
    /\ call_result' = value
    /\ call_pc' = "idle"
    /\ region_idx' = 0
    /\ model_idx' = 0
    /\ attempt' = 0
    /\ models_to_try' = <<>>
    /\ regions_to_try' = <<>>

\* Lines 191-236: the cache lookup, the circuit breaker, the plan.
CallStart(model_name, p) ==
    /\ call_pc = "idle"
    /\ invocations < MaxInvocations
    /\ invocations' = invocations + 1
    /\ initial_model_name' = LastSegment(model_name)
    /\ prompt' = p
    /\ last_call' = NoCall
    /\ backoff_wake' = 0
    /\ UNCHANGED <<limiterVars, today, threadVars, histVars, cacheVars,
                   cloud_location, call_acquires>>
    /\ IF Strip(p) = <<>>
       THEN /\ Return("None")
            /\ call_entry' = "blank"
       ELSE IF cache.kind # "object"
       THEN /\ Return("raised")
            /\ call_entry' = "lookup_raised"
       ELSE IF cache_get(cache, p, LastSegment(model_name)) # Absent
       THEN /\ Return(cache_get(cache, p, LastSegment(model_name)).response)
            /\ call_entry' = "hit"
       ELSE IF breaker_tripped(get_daily_usage, requests_per_day)
       THEN /\ Return("None")
            /\ call_entry' = UsageBand(get_daily_usage, requests_per_day)
       ELSE /\ call_entry' = UsageBand(get_daily_usage, requests_per_day)
            /\ models_to_try' = models_for(LastSegment(model_name))
            /\ regions_to_try' = regions_for(cloud_location)
            /\ region_idx' = 1
            /\ model_idx' = 0
            /\ attempt' = 0
            /\ call_pc' = "region"
            /\ call_result' = "none"

\* Lines 238-247: vertexai_init for the region, or the end of the plan
\* (lines 299-300).
RegionInit(ok) ==
    /\ call_pc = "region"
    /\ IF region_idx > Len(regions_to_try)
       THEN Return("None")
       ELSE /\ call_pc' = IF ok THEN "model" ELSE "region"
            /\ region_idx' = IF ok THEN region_idx ELSE region_idx + 1
            /\ model_idx' = IF ok THEN 1 ELSE 0
            /\ UNCHANGED <<attempt, call_result, models_to_try,
                           regions_to_try>>
    /\ UNCHANGED <<limiterVars, today, threadVars, histVars, cacheVars,
                   cloud_location, initial_model_name, prompt, backoff_wake,
                   callHist>>

\* Lines 249-263: GenerativeModel(m_name) for the candidate.
ModelCreate(ok) ==
    /\ call_pc = "model"
    /\ IF ok
       THEN /\ call_pc' = "acquire"
            /\ UNCHANGED <<region_idx, model_idx, attempt, last_call>>
       ELSE NextCandidate
    /\ UNCHANGED <<limiterVars, today, threadVars, histVars, cacheVars,
                   cloud_location, initial_model_name, prompt, models_to_try,
                   regions_to_try, backoff_wake, call_result, invocations,
                   call_entry, call_acquires>>

\* Line 268: rate_limiter.acquire(timeout=30) begins.
CallAcquire ==
    /\ call_pc = "acquire"
    /\ call_acquires < MaxAcquires
    /\ AcquireBegin(Caller, AcquireTimeoutInCall)
    /\ call_pc' = "acquiring"
    /\ call_acquires' = call_acquires + 1
    /\ UNCHANGED <<ncalls, cacheVars, cloud_location, initial_model_name, prompt,
                   models_to_try, regions_to_try, region_idx, model_idx,
                   attempt, backoff_wake, call_result, invocations,
                   call_entry, last_call>>

\* Lines 268-269: acquire has returned.
CallAcquired ==
    /\ call_pc = "acquiring"
    /\ pc[Caller] = "idle"
    /\ IF token_granted(result[Caller])
       THEN /\ call_pc' = "attempt"
            /\ attempt' = 0
            /\ UNCHANGED <<region_idx, model_idx, last_call>>
       ELSE NextCandidate
    /\ UNCHANGED <<limiterVars, today, threadVars, histVars, cacheVars,
                   cloud_location, initial_model_name, prompt, models_to_try,
                   regions_to_try, backoff_wake, call_result, invocations,
                   call_entry, call_acquires>>

\* The record of the backend calls to the candidate, after one more; here
\* says that the candidate is still the current one.
Called(outcome, stay) ==
    IF last_call.here
    THEN [last_call EXCEPT !.outcome = outcome, !.calls = @ + 1,
                           !.here = stay]
    ELSE [here |-> stay, first |-> outcome, outcome |-> outcome,
          calls |-> 1, sleeps |-> 0]

\* Lines 278-297: one do_call and what follows it.
BackendCall(outcome) ==
    /\ call_pc = "attempt"
    /\ UNCHANGED <<limiterVars, today, threadVars, histVars, last_set, loaded,
                   cloud_location, initial_model_name, prompt, invocations,
                   call_entry, call_acquires>>
    /\ CASE outcome \in {"text", "empty"} ->
              LET text == IF outcome = "text" THEN ResponseText ELSE ""
                  m_name == models_to_try[model_idx]
              IN IF response_ok(text)
                 THEN IF cache.kind = "object"
                      THEN /\ cache' = cache_set(cache, prompt, m_name, text)
                           /\ cache_file' =
                                  save_cache(cache_set(cache, prompt, m_name,
                                                       text))
                           /\ Return(text)
                           /\ last_call' = Called(outcome, FALSE)
                           /\ UNCHANGED backoff_wake
                      ELSE \* cache.set raises: line 295
                           /\ Advance
                           /\ last_call' = Called("set_raised", FALSE)
                           /\ UNCHANGED <<cache, cache_file, backoff_wake,
                                          call_result, models_to_try,
                                          regions_to_try>>
                 ELSE \* line 284
                      /\ Advance
                      /\ last_call' = Called(outcome, FALSE)
                      /\ UNCHANGED <<cache, cache_file, backoff_wake,
                                     call_result, models_to_try,
                                     regions_to_try>>
         [] outcome \notin {"text", "empty"} /\ handler(outcome) = "retry" ->
              \* lines 285-288
              /\ call_pc' = "backoff"
              /\ backoff_wake' = Now + backoff_delay(attempt)
              /\ last_call' = [Called(outcome, TRUE) EXCEPT !.sleeps = @ + 1]
              /\ UNCHANGED <<cache, cache_file, region_idx, model_idx,
                             attempt, call_result, models_to_try,
                             regions_to_try>>
         [] OTHER ->
              \* lines 289-297
              /\ Advance
              /\ last_call' = Called(outcome, FALSE)
              /\ UNCHANGED <<cache, cache_file, backoff_wake, call_result,
                             models_to_try, regions_to_try>>

\* Line 288 has slept: the next attempt of line 278, or the next candidate.
BackoffWake ==
    /\ call_pc = "backoff"
    /\ Now >= backoff_wake
    /\ IF retries_left(attempt)
       THEN /\ attempt' = attempt + 1
            /\ call_pc' = "attempt"
            /\ UNCHANGED <<region_idx, model_idx, last_call>>
       ELSE NextCandidate
    /\ UNCHANGED <<limiterVars, today, threadVars, histVars, cacheVars,
                   cloud_location, initial_model_name, prompt, models_to_try,
                   regions_to_try, backoff_wake, call_result, invocations,
                   call_entry, call_acquires>>

\* time.time() moves on by a second while the caller is asleep, in acquire
\* or in its backoff; one call follows another at once.
TickCall ==
    /\ Tick
    /\ \/ call_pc = "acquiring" /\ pc[Caller] = "sleep"
       \/ call_pc = "backoff" /\ Now < backoff_wake
    /\ backoff_wake' = IF call_pc = "backoff" THEN backoff_wake - 1
                       ELSE backoff_wake
    /\ UNCHANGED <<cacheVars, cloud_location, call_pc, initial_model_name,
                   prompt, models_to_try, regions_to_try, region_idx,
                   model_idx, attempt, call_result, callHist>>

\* The limiter of get_rate_limiter (lines 174-183) as earlier calls of the
\* day left it: count tokens taken and recorded, the last of them now and
\* in one burst, so that the bucket holds what the burst has left of it.
LimiterInUse(count) ==
    /\ usage_log_file = save_usage_log(today, count)
    /\ daily_usage = count
    /\ daily_usage_date = today
    /\ min_bucket = Max(0, requests_per_minute - count)
    /\ min_bucket_last_refill = Now
    /\ min_bucket_lock = Free

\* get_rate_limiter (lines 174-183) has constructed the limiter, from no
\* usage log, or has it in use one call short of the breaker's threshold;
\* the cache is the one the module loaded (line 35).
InitCall ==
    /\ requests_per_minute = DefaultRpm
    /\ requests_per_day = DefaultRpd
    /\ today = 1
    /\ pc = [t \in {Caller} |-> "idle"]
    /\ \/ usage_log_file = NoFile /\ LimiterConstructed
       \/ LimiterInUse((BreakerPercent * DefaultRpd) \div 100 - 1)
    /\ ThreadsIdle
    /\ window = Unobserved
    /\ cache_file \in {FileAbsent, JsonList,
                       JsonObject([k \in {generate_key(<<"p">>, Flash20Exp)}
                                      |-> [response |-> "r0"]])}
    /\ cache = load_cache(cache_file)
    /\ loaded = cache_file
    /\ last_set = <<>>
    /\ cloud_location \in CloudLocations
    /\ CallIdle
    /\ GenIdle
    /\ RaceIdle

NextCall ==
    \/ \E m \in SeedNames, p \in Prompts :
           CallStart(m, p) /\ UNCHANGED elsewhere
    \/ \E ok \in BOOLEAN : RegionInit(ok) /\ UNCHANGED elsewhere
    \/ \E ok \in BOOLEAN : ModelCreate(ok) /\ UNCHANGED elsewhere
    \/ CallAcquire /\ UNCHANGED elsewhere
    \/ AcquireLock(Caller) /\ UNCHANGED others
    \/ AcquireBucket(Caller) /\ UNCHANGED others
    \/ AcquireTimeout(Caller) /\ UNCHANGED others
    \/ AcquireWake(Caller) /\ UNCHANGED others
    \/ CallAcquired /\ UNCHANGED elsewhere
    \/ \E o \in Outcomes : BackendCall(o) /\ UNCHANGED elsewhere
    \/ BackoffWake /\ UNCHANGED elsewhere
    \/ TickCall /\ UNCHANGED elsewhere

SpecCall == InitCall /\ [][NextCall]_vars

\* ------------------------------------------- the limiter shared (170-183)
\* get_rate_limiter hands the one limiter of the process to every caller.
\* Another thread's acquire (lines 146-158) finds the day open, the lock free
\* and a token in the bucket after the refill: it takes the token, records
\* the usage and returns True.
OtherGrant ==
    /\ ncalls < MaxCalls
    /\ ncalls' = ncalls + 1
    /\ min_bucket_lock = Free
    /\ daily_limit_open(usage_on(today), requests_per_day)
    /\ bucket_after_refill(min_bucket, min_bucket_last_refill, Now,
                           requests_per_minute) >= 1
    /\ min_bucket' = bucket_after_refill(min_bucket, min_bucket_last_refill,
                                         Now, requests_per_minute) - 1
    /\ min_bucket_last_refill' =
           last_refill_after_refill(min_bucket_last_refill, Now,
                                    requests_per_minute)
    /\ daily_usage' = usage_on(today) + 1
    /\ daily_usage_date' = today
    /\ usage_log_file' = save_usage_log(today, usage_on(today) + 1)
    /\ window' \in WindowAtGrant(window, requests_per_minute)
    /\ UNCHANGED <<requests_per_minute, requests_per_day, min_bucket_lock,
                   today, threadVars, called, entry_usage, slept, last_wait,
                   overlapping, restart_info, cacheVars, callVars, callHist,
                   genVars, raceVars, planHist>>

\* The orchestrator with the limiter in use and other threads at it.
InitStarved ==
    /\ InitCall
    /\ usage_log_file # NoFile
    /\ cache_file = FileAbsent
    /\ cloud_location = "us-central1"

NextStarved ==
    \/ NextCall
    \/ OtherGrant

SpecStarved == InitStarved /\ [][NextStarved]_vars

\* ------------------------------------------- the whole plan (238-300)
\* The orchestrator through all of its plan.  acquire (line 268) is one
\* step here, its call and its return: True or False as the limiter, which
\* this section leaves as it is, would have it.  Every backend call is
\* counted.
PlanAcquire(granted) ==
    /\ call_pc = "acquire"
    /\ pc[Caller] = "idle"
    /\ result' = [result EXCEPT ![Caller] =
                      IF granted THEN "True" ELSE "False"]
    /\ IF token_granted(IF granted THEN "True" ELSE "False")
       THEN /\ call_pc' = "attempt"
            /\ attempt' = 0
            /\ UNCHANGED <<region_idx, model_idx, last_call>>
       ELSE NextCandidate
    /\ UNCHANGED <<limiterVars, today, pc, timeout, start_time, wake,
                   histVars, cacheVars, cloud_location, initial_model_name,
                   prompt, models_to_try, regions_to_try, backoff_wake,
                   call_result, invocations, call_entry, call_acquires>>

\* Line 287: time.sleep(wait), one second of it.  The limiter's clock
\* readings are not read in this section and are left as they are.
PlanTick ==
    /\ call_pc = "backoff"
    /\ Now < backoff_wake
    /\ backoff_wake' = backoff_wake - 1
    /\ UNCHANGED <<limiterVars, today, threadVars, histVars, cacheVars,
                   cloud_location, call_pc, initial_model_name, prompt,
                   models_to_try, regions_to_try, region_idx, model_idx,
                   attempt, call_result, callHist>>

InitPlan ==
    /\ InitCall
    /\ usage_log_file = NoFile
    /\ cache_file = FileAbsent
    /\ cloud_location = "us-central1"

PlanStart ==
    \E m \in SeedNames, p \in Prompts :
        /\ invocations < PlanCalls
        /\ CallStart(m, p)
        /\ backend_calls' = 0
        /\ UNCHANGED <<genVars, raceVars>>

\* One step of the thread that is in the call.
PlanStep ==
    \/ \E ok \in BOOLEAN : RegionInit(ok) /\ UNCHANGED elsewhere
    \/ \E ok \in BOOLEAN : ModelCreate(ok) /\ UNCHANGED elsewhere
    \/ \E granted \in BOOLEAN : PlanAcquire(granted) /\ UNCHANGED elsewhere
    \/ \E o \in Outcomes :
           /\ BackendCall(o)
           /\ backend_calls' = backend_calls + 1
           /\ UNCHANGED <<genVars, raceVars>>
    \/ BackoffWake /\ UNCHANGED elsewhere
    \/ PlanTick /\ UNCHANGED elsewhere

NextPlan == PlanStart \/ PlanStep

\* The thread in the call runs: every backend call returns or raises, and
\* every sleep ends.
FairPlan == WF_vars(PlanStep)

SpecPlan == InitPlan /\ [][NextPlan]_vars /\ FairPlan

\* ------------------------ ContentGenerator._call_gemini (generator.py 255-304)
\* The response text is a sequence of pieces: a brace, a member "a":1 or
\* "b":2 of an object, a key "k": that a value follows, text that is no JSON,
\* white space, the fence of three backticks and the word json.
Fence == "fence"
GenPieces == {"{", "}", "a", "k", "g", " ", Fence, "json"}
Fixture == <<"{", "a", "}", "g", "{", "b", "}">>
GenFixtures ==
    {Fixture,
     <<Fence, "json", " ", "{", "k", "{", "a", "}", "}", " ", Fence>>,
     <<"{", "k", "{", "a", "}">>,
     <<"g", "{", "k", "{", "}", "}", "g", "}">>}
GenTexts ==
    UNION {[1..n -> GenPieces] : n \in 0..GenLen} \cup GenFixtures

None == [kind |-> "None", value |-> <<>>]
JSONDecodeError == [kind |-> "JSONDecodeError", value |-> <<>>]

\* The first replace of line 275, of a fence with json after it: one pass
\* from the left.
RECURSIVE replace_fence_json(_)
replace_fence_json(str) ==
    IF Len(str) < 2 THEN str
    ELSE IF str[1] = Fence /\ str[2] = "json"
    THEN replace_fence_json(SubSeq(str, 3, Len(str)))
    ELSE <<str[1]>> \o replace_fence_json(Tail(str))

\* The second replace of line 275, of a fence.
replace_fence_kept(str) == str
replace_fence(str) == SelectSeq(str, LAMBDA x : x # Fence)

\* json.loads: white space between the pieces does not count; a value is an
\* empty object, an object of one member, or an object of the key and a
\* value.  The parse is the value without its white space.
Squeeze(str) == SelectSeq(str, LAMBDA x : x # " ")

RECURSIVE IsJsonValue(_)
IsJsonValue(c) ==
    \/ c = <<"{", "}">>
    \/ Len(c) = 3 /\ c[1] = "{" /\ c[2] \in {"a", "b"} /\ c[3] = "}"
    \/ /\ Len(c) >= 5
       /\ c[1] = "{"
       /\ c[2] = "k"
       /\ c[Len(c)] = "}"
       /\ IsJsonValue(SubSeq(c, 3, Len(c) - 1))

json_loads(str) ==
    IF IsJsonValue(Squeeze(str))
    THEN [kind |-> "value", value |-> Squeeze(str)]
    ELSE JSONDecodeError

\* content.find('{') (line 287)
last_brace(content) ==
    CHOOSE i \in 1..Len(content) :
        content[i] = "{" /\ \A j \in (i + 1)..Len(content) : content[j] # "{"
first_brace(content) ==
    CHOOSE i \in 1..Len(content) :
        content[i] = "{" /\ \A j \in 1..(i - 1) : content[j] # "{"

\* Lines 289-296: end runs from the last piece down to the one after start.
RECURSIVE scan_back(_, _, _)
scan_back(content, start, end) ==
    IF end <= start THEN None
    ELSE IF content[end] = "}"
            /\ json_loads(SubSeq(content, start, end)).kind = "value"
    THEN json_loads(SubSeq(content, start, end))
    ELSE scan_back(content, start, end - 1)

\* Lines 275-277
cleaned(text) == Strip(replace_fence(replace_fence_json(text)))

\* Lines 267-300
call_gemini(response) ==
    IF ~response.given THEN None
    ELSE IF json_loads(cleaned(response.text)).kind = "value"
    THEN json_loads(cleaned(response.text))
    ELSE IF Contains(cleaned(response.text), "{")
    THEN scan_back(cleaned(response.text),
                   first_brace(cleaned(response.text)),
                   Len(cleaned(response.text)))
    ELSE None

\* _call_gemini with the response call_vertex_with_retry has returned.
CallGemini ==
    /\ gen_pc = "idle"
    /\ gen_pc' = "done"
    /\ gen_result' = call_gemini(gen_response)
    /\ gen_recovery' = (/\ gen_response.given
                        /\ json_loads(cleaned(gen_response.text)).kind
                               # "value")
    /\ UNCHANGED gen_response

InitGemini ==
    /\ requests_per_minute = DefaultRpm
    /\ requests_per_day = DefaultRpd
    /\ today = 1
    /\ usage_log_file = NoFile
    /\ pc = [t \in {1} |-> "idle"]
    /\ LimiterConstructed
    /\ ThreadsIdle
    /\ window = Unobserved
    /\ CacheUnused
    /\ cloud_location = "us-central1"
    /\ CallIdle
    /\ gen_pc = "idle"
    /\ gen_response \in
           {NoResponse} \cup {[given |-> TRUE, text |-> t] : t \in GenTexts}
    /\ gen_result = NoResult
    /\ gen_recovery = FALSE
    /\ RaceIdle

NextGemini ==
    /\ CallGemini
    /\ UNCHANGED <<limiterVars, today, threadVars, histVars, cacheVars,
                   callVars, callHist, raceVars, planHist>>

SpecGemini == InitGemini /\ [][NextGemini]_vars


\* ------------------------------------------------------------------ claims
InCall(t) == pc[t] \in {"loop", "locked", "waiting", "sleep"}

\* C1: in any 60-second window at most requests_per_minute acquire calls
\* return True.
C1_WindowWithinRate == window.count <= requests_per_minute

\* C2, as stated: a call of acquire that begins with the day's usage at or
\* above 95% of requests_per_day returns False at once, with no sleep and no
\* token.
C2_FailsFrom95Percent ==
    \A t \in Threads :
        called[t] /\ entry_usage[t] \in {"buffer", "full"}
            => ~InCall(t) /\ result[t] = "False" /\ ~slept[t]

\* C2, amended: a call of acquire that begins with the day's usage at or
\* above requests_per_day returns False at once, with no sleep and no token.
C2_FailsFromCeiling ==
    \A t \in Threads :
        called[t] /\ entry_usage[t] = "full"
            => ~InCall(t) /\ result[t] = "False" /\ ~slept[t]

C2_Witness ==
    \E t \in Threads :
        called[t] /\ entry_usage[t] = "full" /\ result[t] = "False"

\* C3: a limiter constructed from the usage log reports the usage the old
\* one reported when it is constructed on the same day, and 0 on a later day.
C3_UsageSurvivesRestart ==
    restart_info.happened =>
        restart_info.reported =
            IF restart_info.same_day THEN restart_info.usage_before ELSE 0

C3_Witness ==
    /\ restart_info.happened
    /\ restart_info.same_day
    /\ restart_info.grants_before >= 1
    /\ restart_info.reported >= 1

\* C4: get returns the response of the last set of its (prompt, model) pair,
\* and absent for a pair that was never set and is not in the loaded file.
C4_GetAfterSet ==
    cache.kind = "object" =>
        \A pair \in DOMAIN last_set :
            IF last_set[pair] # "<None>"
            THEN cache_get(cache, pair[1], pair[2]) =
                     [response |-> last_set[pair]]
            ELSE generate_key(pair[1], pair[2]) \notin DOMAIN loaded.map =>
                     cache_get(cache, pair[1], pair[2]) = Absent

\* C5: a candidate whose backend call fails with NotFound gets exactly one
\* backend call and no backoff sleep.
C5_NotFoundIsNotRetried ==
    last_call.first = "NotFound" =>
        last_call.calls = 1 /\ last_call.sleeps = 0

\* C6: three concurrent acquire(timeout=5) on a limiter of 2 per minute.
BurstScenario ==
    /\ requests_per_minute = 2
    /\ Threads = BurstThreads
    /\ ncalls = 3
    /\ overlapping
    /\ \A t \in Threads : called[t] /\ timeout[t] = 5

\* C6: exactly two of the three return True without sleeping, and the third
\* does not return True less than one refill interval after them.
C6_ThirdWaitsARefill ==
    BurstScenario =>
        /\ (\A t \in Threads : ~InCall(t)) =>
               Cardinality({t \in Threads :
                               result[t] = "True" /\ ~slept[t]}) = 2
        /\ ~(window.count >= 3 /\ window.quick)

\* C7: a call that finds no cache hit and the day's usage at or above 95% of
\* requests_per_day returns None at once: the step that enters it leaves
\* the limiter, its usage log and the count of acquire calls as they were,
\* and no backend call is made.
C7_BreakerReturnsNone ==
    /\ [](call_entry \in {"buffer", "full"} =>
              /\ call_pc = "idle"
              /\ call_result = "None"
              /\ last_call = NoCall
              /\ pc[Caller] = "idle")
    /\ [][invocations' # invocations /\ call_entry' \in {"buffer", "full"} =>
              UNCHANGED <<limiterVars, threadVars, call_acquires>>]_vars

C7_Witness ==
    /\ call_entry = "buffer"
    /\ Strip(prompt) # <<>>
    /\ cache_get(cache, prompt, initial_model_name) = Absent
    /\ call_result = "None"
    /\ 100 * get_daily_usage = BreakerPercent * requests_per_day

\* C8: after a backend call has failed with ResourceExhausted the day's
\* usage is at least requests_per_day + 1.
C8_QuotaErrorForcesUsage ==
    last_call.outcome = "ResourceExhausted" =>
        get_daily_usage >= requests_per_day + 1

\* C9: call_vertex_with_retry never raises for a prompt that is not blank.
C9_NeverRaises == Strip(prompt) # <<>> => call_result # "raised"

\* C10: a backend call that returns an empty text is the last one to its
\* candidate: the orchestrator has left the candidate, the empty text is
\* not the result of the call and no cache entry holds it.
C10_EmptyIsNoSuccess ==
    /\ last_call.outcome = "empty" =>
           ~last_call.here /\ call_result \in {"none", "None"}
    /\ call_result # ""
    /\ \A k \in DOMAIN cache.map : cache.map[k].response # ""

C10_Witness ==
    /\ last_call.outcome = "empty"
    /\ last_call.calls = 1
    /\ call_pc = "model"
    /\ model_idx = 2

\* The plan has been built and the call has not returned.
InPlan == call_pc # "idle"

NoDuplicates(seq) ==
    \A i, j \in 1..Len(seq) : seq[i] = seq[j] => i = j

\* seq keeps the order of the list whole: of two entries of seq, the one
\* that is earlier in whole is earlier in seq.
InOrderOf(seq, whole) ==
    \A i, j \in 1..Len(seq) :
        i < j => \E k, l \in 1..Len(whole) :
                     k < l /\ whole[k] = seq[i] /\ whole[l] = seq[j]

\* C14: a CacheManager constructed from no file, or from a file that does
\* not parse, has a mapping for its cache: empty at first, and afterwards
\* holding the keys that were set and nothing else, with the file the same
\* as the cache from the first set on.
C14_BadFileIsEmptyCache ==
    loaded.kind \in {"absent", "unparsable"} =>
        LET done == {q \in DOMAIN last_set : last_set[q] # "<None>"}
        IN /\ cache.kind = "object"
           /\ DOMAIN cache.map = {generate_key(q[1], q[2]) : q \in done}
           /\ \A k \in DOMAIN cache.map :
                  \E q \in done :
                      /\ generate_key(q[1], q[2]) = k
                      /\ cache.map[k].response = last_set[q]
           /\ done # {} => cache_file = cache

C14_Witness ==
    /\ loaded.kind = "unparsable"
    /\ last_set[<<(<<"c">>), (<<"a">>)>>] = "r1"
    /\ cache_get(cache, <<"c">>, <<"a">>) = [response |-> "r1"]
    /\ cache_get(cache, <<"b", ":", "c">>, <<"a">>) = Absent

\* C15: a candidate whose backend call fails with ResourceExhausted gets
\* exactly one backend call and no backoff sleep, and the orchestrator goes
\* on to the next candidate.
C15_QuotaErrorIsNotRetried ==
    last_call.first = "ResourceExhausted" =>
        /\ last_call.calls = 1
        /\ last_call.sleeps = 0

\* C16: a candidate that keeps failing with a transient error
\* (ServiceUnavailable, InternalServerError) is called max_retries times and
\* no more, each failure followed by a sleep twice as long as the one before
\* it (1 s after the first), and only then is the next candidate taken; a
\* call that succeeds, on whichever attempt, is cached under the candidate
\* and returned at once.
Transient == {"ServiceUnavailable", "InternalServerError"}
C16_TransientRetriedWithBackoff ==
    /\ [](/\ last_call.calls <= MaxRetries
          /\ last_call.outcome \in Transient =>
                 /\ last_call.sleeps = last_call.calls
                 /\ last_call.here => call_pc \in {"backoff", "attempt"}
                 /\ ~last_call.here => last_call.calls = MaxRetries)
    /\ [][call_pc = "attempt" /\ call_pc' = "backoff"
              /\ last_call'.outcome \in Transient =>
              /\ backoff_wake' = Now + 2 ^ (last_call'.calls - 1)
              /\ UNCHANGED <<region_idx, model_idx>>]_vars
    /\ [][call_pc = "attempt" /\ last_call'.outcome = "text" =>
              /\ call_pc' = "idle"
              /\ call_result' = ResponseText
              /\ cache_get(cache', prompt, models_to_try[model_idx]) =
                     [response |-> ResponseText]
              /\ cache_file' = cache']_vars
C16_Witness ==
    /\ last_call = [here |-> FALSE, first |-> "ServiceUnavailable",
                    outcome |-> "ServiceUnavailable", calls |-> MaxRetries,
                    sleeps |-> MaxRetries]
    /\ call_pc = "model"
    /\ region_idx = 1
    /\ model_idx = 2
    /\ backoff_wake = Now

\* C17: the backend calls made today are at most the daily usage recorded
\* today.  The calls made to the candidate at hand are some of today's
\* calls, so they are at most the recorded usage too.
C17_CallsWithinUsage == last_call.calls <= get_daily_usage

\* C18: a call of call_vertex_with_retry whose prompt and seed name are in
\* the cache returns the cached response text and changes nothing else: no
\* token is taken, the daily usage and the usage log stay as they are, no
\* backend call is made and the cache is not written; the state of the
\* circuit breaker makes no difference.
C18_HitLeavesAllUnchanged ==
    [][/\ invocations' # invocations
       /\ Strip(prompt') # <<>>
       /\ cache.kind = "object"
       /\ generate_key(prompt', initial_model_name') \in DOMAIN cache.map
       => /\ call_pc' = "idle"
          /\ call_result' =
                 cache.map[generate_key(prompt', initial_model_name')].response
          /\ last_call' = NoCall
          /\ UNCHANGED <<limiterVars, today, threadVars, cacheVars,
                         call_acquires>>]_vars
C18_Witness ==
    /\ call_entry = "hit"
    /\ call_pc = "idle"
    /\ call_result = "r0"
    /\ breaker_tripped(get_daily_usage, requests_per_day)
    /\ last_call = NoCall

\* C19: a candidate is called only after acquire has returned True for
\* it, with nothing between the two but the retries of that candidate; when
\* acquire returns False the candidate gets no backend call and the next
\* candidate is taken.
C19_NoCallWithoutToken ==
    /\ [](call_pc \in {"attempt", "backoff"} => result[Caller] = "True")
    /\ [][call_pc # "attempt" /\ call_pc' = "attempt" =>
              /\ \/ call_pc = "acquiring" /\ result[Caller] = "True"
                 \/ call_pc = "backoff"
              /\ UNCHANGED <<region_idx, model_idx, result>>]_vars
    /\ [][last_call'.calls # last_call.calls /\ last_call' # NoCall =>
              call_pc = "attempt" /\ result[Caller] = "True"]_vars
    /\ [][call_pc = "acquiring" /\ pc[Caller] = "idle"
              /\ result[Caller] = "False" /\ call_pc' # call_pc =>
              /\ call_pc' \in {"model", "region"}
              /\ <<region_idx', model_idx'>> # <<region_idx, model_idx>>
              /\ ~last_call.here
              /\ last_call' = last_call]_vars
C19_Witness ==
    /\ result[Caller] = "False"
    /\ call_pc = "model"
    /\ region_idx = 1
    /\ model_idx = 2
    /\ last_call = NoCall
    /\ call_acquires = 1

\* C20: whatever the seed name, the variant list of a call holds an
\* alternate besides the seed.
C20_SeedHasAlternates ==
    InPlan => \E i \in 1..Len(models_to_try) :
                  models_to_try[i] # initial_model_name

\* C21: the bucket holds from 0 to requests_per_minute tokens, and the
\* tokens and the time of the last refill change only in a step of the thread
\* that holds min_bucket_lock.  (The time of the last refill is kept as an
\* age, which a second passing makes one older; a new limiter is the
\* constructor's.)
C21_BucketBoundedAndLocked ==
    /\ [](0 <= min_bucket /\ min_bucket <= requests_per_minute)
    /\ [][/\ \/ min_bucket' # min_bucket
              \/ min_bucket_last_refill' \notin
                     {min_bucket_last_refill, Older(min_bucket_last_refill)}
           /\ restart_info' = restart_info
           => \E t \in Threads : /\ min_bucket_lock = t
                                 /\ pc[t] = "locked"
                                 /\ pc'[t] # "locked"]_vars
C21_Witness ==
    \E t \in Threads :
        /\ result[t] = "True"
        /\ slept[t]
        /\ min_bucket = 0
        /\ min_bucket_last_refill = Now
        /\ min_bucket_lock = Free

\* C22: every call of acquire returns, True with a token taken or False; a
\* call that began with the day open returns False only when timeout
\* seconds or more have passed since it began; every sleep is of 10 seconds
\* at most and is no shorter than the sleep before it.
C22_AcquireTerminates ==
    /\ \A t \in 1..NumThreads : InCall(t) ~> ~InCall(t)
    /\ [](\A t \in Threads :
              called[t] /\ ~InCall(t) => result[t] \in {"True", "False"})
    /\ [][\A t \in Threads :
              /\ InCall(t) /\ result'[t] = "False" =>
                     Now - start_time[t] >= timeout[t]
              /\ InCall(t) /\ result'[t] = "True" =>
                     /\ min_bucket' =
                            bucket_after_refill(min_bucket,
                                min_bucket_last_refill, Now,
                                requests_per_minute) - 1
                     /\ min_bucket' >= 0
              /\ pc[t] # "sleep" /\ pc'[t] = "sleep" =>
                     /\ last_wait'[t] <= 2 * MaxWait
                     /\ last_wait'[t] >= last_wait[t]
                     /\ 2 * (wake'[t] - Now) >= last_wait'[t]
                     /\ wake'[t] - Now <= MaxWait]_vars
C22_Witness ==
    \E t \in Threads :
        /\ timeout[t] = AcquireTimeoutInCall
        /\ result[t] = "False"
        /\ slept[t]
        /\ ~InCall(t)

\* C23: once a set has returned, the cache file holds the whole mapping of
\* the cache, and a CacheManager constructed from the file answers every
\* get as the cache does.
C23_FileIsWholeCache ==
    (\E pair \in DOMAIN last_set : last_set[pair] # "<None>") =>
        /\ cache_file.kind = "object"
        /\ DOMAIN cache_file.map = DOMAIN cache.map
        /\ \A k \in DOMAIN cache.map : cache_file.map[k] = cache.map[k]
        /\ \A pair \in CachePairs \cup {<<(<<"c">>), (<<"a">>)>>} :
               cache_get(load_cache(cache_file), pair[1], pair[2]) =
                   cache_get(cache, pair[1], pair[2])
C23_Witness ==
    /\ loaded.kind = "object"
    /\ Cardinality(DOMAIN cache.map) = 3
    /\ cache_get(load_cache(cache_file), <<"c">>, <<"a">>) =
           [response |-> "r0"]
    /\ cache_get(load_cache(cache_file), <<"c">>, <<"a", ":", "b">>) =
           [response |-> "r1"]
    /\ cache_get(load_cache(cache_file), <<"b", ":", "c">>,
                 <<"a", ":", "b">>) = [response |-> "r2"]

\* C24: when a call has returned a response of the backend, the next call
\* with the same seed name and the same prompt is a cache hit, whichever
\* candidate gave the response.
C24_SecondCallHits ==
    [][/\ invocations' # invocations
       /\ last_call.outcome = "text"
       /\ call_result = ResponseText
       /\ prompt' = prompt
       /\ initial_model_name' = initial_model_name
       => /\ call_entry' = "hit"
          /\ call_result' = ResponseText
          /\ call_pc' = "idle"]_vars

\* C25: whatever the interleaving of the threads that call acquire, the
\* usage of the day is never above requests_per_day.
C25_UsageNeverAboveCeiling == get_daily_usage <= requests_per_day

\* C26: when the threads have each completed a set, for keys of their own,
\* every one of the entries is in the cache and in the cache file, and the
\* file is a mapping that can be parsed.
C26_NoSetIsLost ==
    (\A t \in Writers : pc[t] = "set_done") =>
        /\ cache_file.kind = "object"
        /\ \A t \in Writers :
               /\ cache_get(cache, WriterPair(t)[1], WriterPair(t)[2]) =
                      [response |-> last_set[WriterPair(t)]]
               /\ cache_get(load_cache(cache_file), WriterPair(t)[1],
                            WriterPair(t)[2]) =
                      [response |-> last_set[WriterPair(t)]]

\* C27: the threads that call acquire and get_daily_usage never deadlock:
\* the daily lock is only ever taken alone or inside the bucket lock, a
\* thread that holds a lock is never waiting for the other in the wrong
\* order, a thread that has returned holds no lock (also when the usage
\* file could not be saved), and every call returns.
HoldsBucket(t) == min_bucket_lock = t
HoldsDaily(t) == daily_usage_lock = t
C27_NoDeadlock ==
    /\ [](\A t \in Threads :
              /\ HoldsDaily(t) => pc[t] \in {"check", "usage", "record"}
              /\ HoldsBucket(t) =>
                     pc[t] \in {"locked", "record_enter", "record", "leave"}
              /\ pc[t] = "loop" => ~HoldsDaily(t) /\ ~HoldsBucket(t)
              /\ pc[t] \in {"check_enter", "usage_enter"} =>
                     ~HoldsDaily(t) /\ ~HoldsBucket(t)
              /\ pc[t] \in {"idle", "waiting", "sleep"} =>
                     ~HoldsDaily(t) /\ ~HoldsBucket(t))
    /\ [][\A t \in Threads :
              /\ ~HoldsBucket(t) /\ HoldsBucket(t)' => ~HoldsDaily(t)
              /\ ~HoldsDaily(t) /\ HoldsDaily(t)' =>
                     daily_usage_lock = Free]_vars
    /\ \A t \in 1..NumThreads : (pc[t] # "idle") ~> (pc[t] = "idle")
C27_Witness ==
    \E t \in Threads :
        /\ pc[t] = "idle"
        /\ result[t] = "True"
        /\ daily_usage = 1
        /\ usage_log_file = NoFile
        /\ daily_usage_lock = Free
        /\ min_bucket_lock = Free

\* C28: every call of get_rate_limiter returns the same limiter, however
\* the first calls of the threads interleave.
C28_OneLimiter ==
    \A t, u \in Threads :
        got[t] # NoLimiter /\ got[u] # NoLimiter => got[t] = got[u]

\* The place of the current candidate in a region-major count.
Place == region_idx * (Len(models_to_try) + 1) + model_idx

\* C30: the text given to the hash is different for different (model name,
\* prompt) pairs: no two different pairs that were set gave the same text.
C30_KeyTextInjective ==
    \A q1, q2 \in DOMAIN last_set :
        /\ last_set[q1] # "<None>"
        /\ last_set[q2] # "<None>"
        /\ generate_key(q1[1], q1[2]) = generate_key(q2[1], q2[2])
        => q1 = q2

\* The most backend calls one plan can make: lines 238, 263 and 278.
PlanBudget ==
    Len(regions_for(cloud_location)) * Len(models_for(initial_model_name))
        * MaxRetries

\* C29: every call_vertex_with_retry ends, provided each backend call
\* returns or raises: it only moves forward through the (variant, region)
\* candidates, so it attempts each at most once; it makes at most
\* max_retries backend calls for a candidate; and so it makes at most
\* regions x variants x max_retries backend calls before it returns a
\* response or None.
C29_CallTerminatesWithinBudget ==
    /\ [][InPlan /\ InPlan'
             /\ <<region_idx, model_idx>>' # <<region_idx, model_idx>>
           => Place' > Place]_vars
    /\ [](last_call.calls <= MaxRetries)
    /\ [][backend_calls' # backend_calls /\ InPlan
           => /\ attempt < MaxRetries
              /\ backend_calls' = backend_calls + 1]_vars
    /\ [](backend_calls <= PlanBudget)
    /\ [](call_pc = "idle" /\ invocations > 0
            => call_result \in {"None", ResponseText})
    /\ (InPlan ~> ~InPlan)

\* A plan that spent all of its budget and returned None.
C29_Witness ==
    /\ call_pc = "idle"
    /\ call_result = "None"
    /\ backend_calls > 0
    /\ backend_calls = PlanBudget

\* C11: the plan is region-major: the configured region first, then the
\* fixed alternates in their order; the variants start with the seed; no
\* region and no variant is twice in its list, and the orchestrator only
\* ever moves forward through the pairs, so none is tried twice.
C11_PlanIsRegionMajor ==
    /\ [](InPlan =>
              /\ regions_to_try[1] = cloud_location
              /\ {regions_to_try[i] : i \in 2..Len(regions_to_try)} =
                     {FixedRegions[i] : i \in 1..Len(FixedRegions)}
                         \ {cloud_location}
              /\ InOrderOf(Tail(regions_to_try), FixedRegions)
              /\ NoDuplicates(regions_to_try)
              /\ models_to_try[1] = initial_model_name
              /\ NoDuplicates(models_to_try))
    /\ [][InPlan /\ InPlan' =>
              /\ UNCHANGED <<regions_to_try, models_to_try>>
              /\ Place' >= Place]_vars

C11_Witness ==
    /\ cloud_location = "europe-west1"
    /\ initial_model_name = Flash20Exp
    /\ region_idx = 2
    /\ regions_to_try[2] = "us-central1"
    /\ model_idx = 2
    /\ call_pc = "attempt"

\* What is left of a text when every fence, and the word json right after
\* a fence, is taken out and the white space at both ends is cut.
RECURSIVE Keep(_, _)
Keep(str, n) ==
    IF n = 0 THEN <<>>
    ELSE Keep(str, n - 1) \o
         (IF \/ str[n] = Fence
             \/ str[n] = "json" /\ n > 1 /\ str[n - 1] = Fence
          THEN <<>> ELSE <<str[n]>>)
Remainder(str) == Strip(Keep(str, Len(str)))

\* C12: when the text without its fence markers and surrounding white
\* space is valid JSON, _call_gemini returns its parse and the backward
\* scan is not entered.
C12_StrictParseReturned ==
    gen_pc = "done" /\ gen_response.given
        /\ json_loads(Remainder(gen_response.text)).kind = "value"
    => /\ gen_result = json_loads(Remainder(gen_response.text))
       /\ ~gen_recovery

C12_Witness ==
    /\ gen_pc = "done"
    /\ Len(gen_response.text) > 8
    /\ gen_response.text[1] = Fence
    /\ gen_response.text[2] = "json"
    /\ gen_result = [kind |-> "value",
                     value |-> <<"{", "k", "{", "a", "}", "}">>]

\* The closing braces of a text from which the text back to its first
\* opening brace parses.
ParsingEnds(c) ==
    {e \in 1..Len(c) :
        /\ c[e] = "}"
        /\ \E i \in 1..(e - 1) :
               /\ c[i] = "{"
               /\ \A j \in 1..(i - 1) : c[j] # "{"
               /\ json_loads(SubSeq(c, i, e)).kind = "value"}

\* C13: when the strict parse fails, the result is the parse of the text
\* from the first opening brace to the closing brace nearest the end for
\* which it parses, and None when there is no such brace; the fixture
\* {"a":1}garbage{"b":2} gives {"a":1}.
C13_BackwardScanRecovers ==
    gen_pc = "done" /\ gen_response.given
        /\ json_loads(Remainder(gen_response.text)).kind # "value"
    => LET c == Remainder(gen_response.text)
           first == CHOOSE i \in 1..Len(c) :
                        c[i] = "{" /\ \A j \in 1..(i - 1) : c[j] # "{"
       IN /\ IF ParsingEnds(c) = {}
             THEN gen_result = None
             ELSE \E e \in ParsingEnds(c) :
                      /\ \A f \in ParsingEnds(c) : f <= e
                      /\ gen_result = json_loads(SubSeq(c, first, e))
          /\ gen_response.text = Fixture =>
                 gen_result = [kind |-> "value", value |-> <<"{", "a", "}">>]

C13_Witness ==
    /\ gen_pc = "done"
    /\ gen_response.text = Fixture
    /\ gen_recovery
    /\ gen_result.kind = "value"

====
